---- MODULE Spec2Model ----
(***************************************************************************)
(* Template renderer (render_template / render_block / resolve / truthy /  *)
(* as_display) and the run_once orchestration of src/src/lib.rs.           *)
(*                                                                         *)
(* Strings are sequences of one-character strings; an index i of the code  *)
(* (a 0-based byte offset) is kept 0-based here, so template[i..] is       *)
(* Slice(template, i, Len(template)).  Templates are ASCII, one byte per   *)
(* character.                                                              *)
(***************************************************************************)
EXTENDS Integers, Sequences, FiniteSets, TLC

VARIABLES
    template, root, local,  \* the arguments of render_block
    i, out,                 \* its scan index and its output so far
    pc,                     \* "scan" inside the loop, "done" once it returned
    last,                   \* the iteration just executed: its branch, the
                            \* index and output it started from, its locals
    stack,                  \* the calls of render_block in progress, outermost
                            \* first, when the recursion is run call by call
    stack0,                 \* the stack before the step just taken
    state_doc,              \* the state collection's "top" document, or NoDoc
    history,                \* the history collection, oldest first
    sent,                   \* messages delivered to the Telegram channel
    printed,                \* texts a dry run printed
    rpc,                    \* where run_once stands ("idle" between runs)
    dry_run,                \* options.dry_run of the current run
    current, new_coins,     \* run_once's locals
    result,                 \* what the last run returned: "ok" or "err"
    runs,                   \* runs started so far
    run0                    \* at the start of the current run: state_doc,
                            \* history and sent; and whether the run's send
                            \* returned success, whether every fetch so far
                            \* returned exactly top_n distinct ids, and the
                            \* call whose error the run returned

tvars == <<template, root, local, i, out, pc, last, stack, stack0>>
bvars == <<state_doc, history, sent, printed, rpc, dry_run, current, new_coins,
           result, runs, run0>>
vars == <<tvars, bvars>>

---------------------------------------------------------------------------
(* serde_json::Value and Option<&Value> *)

None == [t |-> "none", v |-> <<>>]
Null == [t |-> "null", v |-> <<>>]
Str(s) == [t |-> "str", v |-> s]
Num(n) == [t |-> "num", v |-> n]
Bool(b) == [t |-> "bool", v |-> b]
Arr(items) == [t |-> "arr", v |-> items]
Obj(m) == [t |-> "obj", v |-> m]

EmptyMap == [x \in {} |-> Null]

(* Value::get(key) with a string key: a member of an Object, else nothing *)
get(v, key) ==
    IF v.t = "obj" /\ key \in DOMAIN v.v THEN v.v[key] ELSE None

---------------------------------------------------------------------------
(* str primitives *)

Slice(s, a, b) == SubSeq(s, a + 1, b)

starts_with(s, p) ==
    /\ Len(p) <= Len(s)
    /\ \A j \in 1..Len(p) : s[j] = p[j]

RECURSIVE find_from(_, _, _)
find_from(s, p, j) ==
    IF j + Len(p) > Len(s) THEN -1
    ELSE IF starts_with(Slice(s, j, Len(s)), p) THEN j
    ELSE find_from(s, p, j + 1)

(* str::find: the offset of the first occurrence of p in s, -1 for None *)
find(s, p) == find_from(s, p, 0)

IsWhitespace(c) == c \in {" ", "\t", "\n", "\r"}

RECURSIVE trim_start(_)
trim_start(s) ==
    IF s # <<>> /\ IsWhitespace(Head(s)) THEN trim_start(Tail(s)) ELSE s

RECURSIVE trim_end(_)
trim_end(s) ==
    IF s # <<>> /\ IsWhitespace(s[Len(s)])
    THEN trim_end(SubSeq(s, 1, Len(s) - 1)) ELSE s

trim(s) == trim_end(trim_start(s))

RECURSIVE rfind_from(_, _, _)
rfind_from(s, p, j) ==
    IF j < 0 THEN -1
    ELSE IF starts_with(Slice(s, j, Len(s)), p) THEN j
    ELSE rfind_from(s, p, j - 1)

(* splitn2 as token.rsplitn(2, '|') would give it: split at the last '|' *)
splitn2_last(token) ==
    LET p == rfind_from(token, <<"|">>, Len(token) - 1)
    IN  IF p = -1 THEN [key |-> token, default |-> <<>>]
        ELSE [key |-> Slice(token, 0, p),
              default |-> Slice(token, p + 1, Len(token))]

(* token.splitn(2, '|'): the text before the first '|' and the text after *)
splitn2(token) ==
    LET p == find(token, <<"|">>)
    IN  IF p = -1 THEN [key |-> token, default |-> <<>>]
        ELSE [key |-> Slice(token, 0, p),
              default |-> Slice(token, p + 1, Len(token))]

---------------------------------------------------------------------------
(* as_display, truthy, resolve *)

Digit(d) == <<"0", "1", "2", "3", "4", "5", "6", "7", "8", "9">>[d + 1]

RECURSIVE NatToString(_)
NatToString(n) ==
    IF n < 10 THEN <<Digit(n)>> ELSE NatToString(n \div 10) \o <<Digit(n % 10)>>

NumToString(n) == IF n < 0 THEN <<"-">> \o NatToString(-n) ELSE NatToString(n)

BoolToString(b) == IF b THEN <<"t", "r", "u", "e">> ELSE <<"f", "a", "l", "s", "e">>

(* the keys of the modelled contexts, in the order serde_json's map keeps *)
KeyOrder == << <<>>, <<"k">> >>

RECURSIVE ToJson(_)
RECURSIVE ArrToJson(_, _)
RECURSIVE ObjToJson(_, _, _)
ToJson(v) ==
    CASE v.t = "null" -> <<"n", "u", "l", "l">>
      [] v.t = "str"  -> <<"\"">> \o v.v \o <<"\"">>
      [] v.t = "num"  -> NumToString(v.v)
      [] v.t = "bool" -> BoolToString(v.v)
      [] v.t = "arr"  -> <<"[">> \o ArrToJson(v.v, 1) \o <<"]">>
      [] v.t = "obj"  -> <<"{">> \o ObjToJson(v.v, 1, TRUE) \o <<"}">>
ArrToJson(items, n) ==
    IF n > Len(items) THEN <<>>
    ELSE (IF n > 1 THEN <<",">> ELSE <<>>) \o ToJson(items[n]) \o ArrToJson(items, n + 1)
ObjToJson(m, n, first) ==
    IF n > Len(KeyOrder) THEN <<>>
    ELSE IF KeyOrder[n] \in DOMAIN m
         THEN (IF first THEN <<>> ELSE <<",">>)
              \o <<"\"">> \o KeyOrder[n] \o <<"\"", ":">> \o ToJson(m[KeyOrder[n]])
              \o ObjToJson(m, n + 1, FALSE)
         ELSE ObjToJson(m, n + 1, first)

(* Option<String>: None, or Str(s) *)
as_display(v) ==
    CASE v.t = "null" -> None
      [] v.t = "str"  -> Str(v.v)
      [] v.t = "num"  -> Str(NumToString(v.v))
      [] v.t = "bool" -> Str(BoolToString(v.v))
      [] OTHER        -> Str(ToJson(v))

(* truthy with Boolean false taken as false *)
truthy_bool(v) ==
    CASE v.t = "none" -> FALSE
      [] v.t = "null" -> FALSE
      [] v.t = "str"  -> v.v # <<>>
      [] v.t = "bool" -> v.v
      [] OTHER        -> TRUE

truthy(v) ==
    CASE v.t = "none" -> FALSE
      [] v.t = "null" -> FALSE
      [] v.t = "str"  -> v.v # <<>>
      [] OTHER        -> TRUE

(* resolve with the two tiers swapped: root shadows local *)
resolve_root_first(loc, rt, key) ==
    IF key = <<>> THEN None
    ELSE LET r == get(rt, key)
         IN  IF r.t # "none" THEN r
             ELSE IF loc.t = "none" THEN None ELSE get(loc, key)

resolve(loc, rt, key) ==
    IF key = <<>> THEN None
    ELSE LET l == IF loc.t = "none" THEN None ELSE get(loc, key)
         IN  IF l.t # "none" THEN l ELSE get(rt, key)

-------------------------------------------------------------------------------------------------------------------------------------------------
(* render_block: one operator per branch of the scan loop, each one        *)
(* iteration.  A result is [i, out, brk, tag, val, block]: the next scan   *)
(* index, the output so far, whether the loop was left with break, and the *)
(* iteration's locals (the trimmed tag or key, what it resolved to, the    *)
(* block of an EACH or IF).                                                *)

PCT == <<"%">>
EACH_OPEN == <<"%", "E", "A", "C", "H", " ">>
IF_OPEN == <<"%", "I", "F", " ">>
END_EACH == <<"%", "E", "N", "D", "_", "E", "A", "C", "H", "%">>
END_IF == <<"%", "E", "N", "D", "_", "I", "F", "%">>

RECURSIVE render_block(_, _, _)
RECURSIVE render_loop(_, _, _, _, _)
RECURSIVE render_items(_, _, _, _, _)

Branch(tpl, n) ==
    LET rest == Slice(tpl, n, Len(tpl))
    IN  IF starts_with(rest, <<"%", "%">>) THEN "escape"
        ELSE IF starts_with(rest, EACH_OPEN) THEN "each"
        ELSE IF starts_with(rest, IF_OPEN) THEN "if"
        ELSE IF tpl[n + 1] = "%" THEN "subst"
        ELSE "char"

Res(n, o, brk, tag, val, block) ==
    [i |-> n, out |-> o, brk |-> brk, tag |-> tag, val |-> val, block |-> block]

Break(n, o) == Res(n, o, TRUE, <<>>, None, <<>>)

EscapeBranch(tpl, rt, loc, n, o) == Res(n + 2, o \o PCT, FALSE, <<>>, None, <<>>)

(* template[from..].find('%'), the end of an opening tag *)
tag_end_find(tpl, from) == find(Slice(tpl, from, Len(tpl)), PCT)

RECURSIVE balanced_from(_, _, _, _, _)
balanced_from(s, opener, closer, j, depth) ==
    IF j >= Len(s) THEN -1
    ELSE IF starts_with(Slice(s, j, Len(s)), closer)
         THEN IF depth = 0 THEN j
              ELSE balanced_from(s, opener, closer, j + Len(closer), depth - 1)
    ELSE IF starts_with(Slice(s, j, Len(s)), opener)
         THEN balanced_from(s, opener, closer, j + Len(opener), depth + 1)
    ELSE balanced_from(s, opener, closer, j + 1, depth)

(* block_end_find as a search that counts nested openers of the same kind *)
block_end_balanced(tpl, block_start, closer) ==
    balanced_from(Slice(tpl, block_start, Len(tpl)),
                  IF closer = END_EACH THEN EACH_OPEN ELSE IF_OPEN, closer, 0, 0)

(* template[block_start..].find("%END_EACH%") / .find("%END_IF%") *)
block_end_find(tpl, block_start, closer) ==
    find(Slice(tpl, block_start, Len(tpl)), closer)

RECURSIVE render_items_rev(_, _, _, _, _)
(* render_items visiting the elements last to first *)
render_items_rev(block, rt, items, n, o) ==
    IF n > Len(items) THEN o
    ELSE render_items_rev(block, rt, items, n + 1,
                          o \o render_block(block, rt, items[Len(items) + 1 - n]))

(* for item in items { out.push_str(&render_block(block, root, Some(item))) } *)
render_items(block, rt, items, n, o) ==
    IF n > Len(items) THEN o
    ELSE render_items(block, rt, items, n + 1, o \o render_block(block, rt, items[n]))

NoBlock == [found |-> FALSE, tag |-> <<>>, val |-> None, block |-> <<>>, next |-> 0]

(* the opening tag, the block and the resolved key of the %EACH at n *)
EachBlock(tpl, rt, loc, n) ==
    LET tag_end_rel == tag_end_find(tpl, n + 6)
    IN  IF tag_end_rel = -1 THEN NoBlock
        ELSE
        LET tag_end == n + 6 + tag_end_rel
            tag == trim(Slice(tpl, n + 6, tag_end))
            block_start == tag_end + 1
            end_rel == block_end_find(tpl, block_start, END_EACH)
        IN  IF end_rel = -1 THEN NoBlock
            ELSE [found |-> TRUE, tag |-> tag, val |-> resolve(loc, rt, tag),
                  block |-> Slice(tpl, block_start, block_start + end_rel),
                  next |-> block_start + end_rel + Len(END_EACH)]

EachBranch(tpl, rt, loc, n, o) ==
    LET b == EachBlock(tpl, rt, loc, n)
    IN  IF ~b.found THEN Break(n, o)
        ELSE Res(b.next,
                 IF b.val.t = "arr" THEN render_items(b.block, rt, b.val.v, 1, o) ELSE o,
                 FALSE, b.tag, b.val, b.block)

(* the opening tag, the block and the resolved key of the %IF at n *)
IfBlock(tpl, rt, loc, n) ==
    LET tag_end_rel == tag_end_find(tpl, n + 4)
    IN  IF tag_end_rel = -1 THEN NoBlock
        ELSE
        LET tag_end == n + 4 + tag_end_rel
            var == trim(Slice(tpl, n + 4, tag_end))
            block_start == tag_end + 1
            end_rel == block_end_find(tpl, block_start, END_IF)
        IN  IF end_rel = -1 THEN NoBlock
            ELSE [found |-> TRUE, tag |-> var, val |-> resolve(loc, rt, var),
                  block |-> Slice(tpl, block_start, block_start + end_rel),
                  next |-> block_start + end_rel + Len(END_IF)]

IfBranch(tpl, rt, loc, n, o) ==
    LET b == IfBlock(tpl, rt, loc, n)
    IN  IF ~b.found THEN Break(n, o)
        ELSE Res(b.next,
                 IF truthy(b.val) THEN o \o render_block(b.block, rt, loc) ELSE o,
                 FALSE, b.tag, b.val, b.block)

(* SubstBranch that forgets i += 1 at a % with no later % *)
SubstBranchStuck(tpl, rt, loc, n, o) ==
    LET end_rel == tag_end_find(tpl, n + 1)
    IN  IF end_rel = -1 THEN Res(n, o \o PCT, FALSE, <<>>, None, <<>>)
        ELSE
        LET token == Slice(tpl, n + 1, n + 1 + end_rel)
            parts == splitn2(token)
            key == trim(parts.key)
            r == resolve(loc, rt, key)
            d == IF r.t = "none" THEN None ELSE as_display(r)
            val == IF d.t # "none" /\ d.v # <<>> THEN d.v ELSE parts.default
        IN  Res(n + end_rel + 2, o \o val, FALSE, key, r, <<>>)

SubstBranch(tpl, rt, loc, n, o) ==
    LET end_rel == tag_end_find(tpl, n + 1)
    IN  IF end_rel = -1 THEN Res(n + 1, o \o PCT, FALSE, <<>>, None, <<>>)
        ELSE
        LET token == Slice(tpl, n + 1, n + 1 + end_rel)
            parts == splitn2(token)
            key == trim(parts.key)
            r == resolve(loc, rt, key)
            d == IF r.t = "none" THEN None ELSE as_display(r)
            val == IF d.t # "none" /\ d.v # <<>> THEN d.v ELSE parts.default
        IN  Res(n + end_rel + 2, o \o val, FALSE, key, r, <<>>)

CharBranch(tpl, rt, loc, n, o) ==
    Res(n + 1, o \o <<tpl[n + 1]>>, FALSE, <<>>, None, <<>>)

LoopBody(tpl, rt, loc, n, o) ==
    LET b == Branch(tpl, n)
    IN  CASE b = "escape" -> EscapeBranch(tpl, rt, loc, n, o)
          [] b = "each"   -> EachBranch(tpl, rt, loc, n, o)
          [] b = "if"     -> IfBranch(tpl, rt, loc, n, o)
          [] b = "subst"  -> SubstBranch(tpl, rt, loc, n, o)
          [] OTHER        -> CharBranch(tpl, rt, loc, n, o)

render_loop(tpl, rt, loc, n, o) ==
    IF n >= Len(tpl) THEN o
    ELSE LET s == LoopBody(tpl, rt, loc, n, o)
         IN  IF s.brk THEN s.out ELSE render_loop(tpl, rt, loc, s.i, s.out)

render_block(tpl, rt, loc) == render_loop(tpl, rt, loc, 0, <<>>)

render_template(tpl, ctx) == render_block(tpl, ctx, None)

---------------------------------------------------------------------------
(* The inputs.  Templates are the concatenations of at most MaxFrags       *)
(* fragments, rendered under two scopes, and a list of directive forms     *)
(* rendered under every scope.                                             *)

MaxFrags == 4

K == <<"k">>
SP == <<" ">>
DFLT == <<"|", "d">>
EACH_K == EACH_OPEN \o K \o PCT
IF_K == IF_OPEN \o K \o PCT
SUBST_K == PCT \o K \o PCT

Frags == { PCT, K, SP, DFLT, EACH_OPEN, IF_OPEN, EACH_K, IF_K, END_EACH, END_IF }

RECURSIVE Concat(_)
Concat(ss) == IF ss = <<>> THEN <<>> ELSE Head(ss) \o Concat(Tail(ss))

Templates ==
    { Concat(fs) : fs \in UNION { [1..n -> Frags] : n \in 0..MaxFrags } }

Forms ==
    { Concat(<<PCT, SP, K, SP, DFLT, SP, DFLT, PCT, K>>),
      Concat(<<PCT, K, SP, K, DFLT, PCT>>),
      Concat(<<EACH_K, <<"[">>, SUBST_K, <<"]">>, END_EACH, SUBST_K>>),
      Concat(<<EACH_OPEN, SP, K, SP, PCT, PCT, K, DFLT, PCT, END_EACH>>),
      Concat(<<EACH_K, IF_K, SUBST_K, END_IF, <<",">>, END_EACH>>),
      Concat(<<EACH_K, K, EACH_K, SUBST_K, END_EACH, SUBST_K, END_EACH, K>>),
      Concat(<<IF_K, <<"[">>, PCT, K, DFLT, PCT, <<"]">>, END_IF, SUBST_K>>),
      Concat(<<IF_K, EACH_K, SUBST_K, END_EACH, END_IF, K>>),
      Concat(<<IF_K, K, IF_K, SUBST_K, END_IF, SUBST_K, END_IF, K>>),
      Concat(<<IF_OPEN, SP, K, SP, PCT, EACH_K, IF_K, K, END_IF, END_EACH, END_IF>>) }

ObjK(v) == Obj([x \in {K} |-> v])

Elems == << ObjK(Str(<<"a">>)), Str(<<"s">>), ObjK(Null), Obj(EmptyMap), ObjK(Str(<<"b">>)) >>

KValues ==
    { Null, Str(<<>>), Str(<<"v">>), Bool(FALSE), Bool(TRUE), Num(0), Num(-12),
      Arr(<<>>), Obj(EmptyMap), Arr(Elems) }

Roots ==
    { Obj(EmptyMap), Str(<<"r">>), Obj([x \in {<<>>, K} |-> Str(<<"z">>)]) }
    \cup { ObjK(v) : v \in KValues }

Locals ==
    { None, Obj(EmptyMap), Str(<<"s">>), Arr(<<Str(<<"s">>)>>),
      ObjK(Null), ObjK(Str(<<>>)), ObjK(Str(<<"a">>)), ObjK(Arr(Elems)),
      Obj([x \in {<<>>, K} |-> Num(7)]) }

Scope(rt, loc) == [root |-> rt, local |-> loc]

FewScopes ==
    { Scope(ObjK(Arr(Elems)), None), Scope(ObjK(Str(<<"v">>)), ObjK(Null)) }

Scopes == { Scope(rt, loc) : rt \in Roots, loc \in Locals }

Inputs ==
    { [template |-> t, scope |-> sc] : t \in Templates, sc \in FewScopes }
    \cup { [template |-> t, scope |-> sc] : t \in Forms, sc \in Scopes }

---------------------------------------------------------------------------
(* render_block(template, root, local) as a state machine: one action per  *)
(* branch of the scan loop, each one iteration of the loop.                *)

NoStep ==
    [branch |-> "none", i |-> 0, out |-> <<>>, brk |-> FALSE,
     tag |-> <<>>, val |-> None, block |-> <<>>]

NoDoc == [present |-> FALSE, ids |-> <<>>]

BotInit ==
    /\ state_doc = NoDoc
    /\ history = <<>>
    /\ sent = 0
    /\ printed = 0
    /\ rpc = "idle"
    /\ dry_run = FALSE
    /\ current = <<>>
    /\ new_coins = <<>>
    /\ result = "ok"
    /\ runs = 0
    /\ run0 = [state_doc |-> NoDoc, history |-> <<>>, sent |-> 0,
               send_ok |-> FALSE, failed |-> "", exact |-> TRUE]

RenderInit ==
    /\ i = 0
    /\ out = <<>>
    /\ pc = "scan"
    /\ last = NoStep
    /\ stack = <<>>
    /\ stack0 = <<>>

Init ==
    /\ \E inp \in Inputs :
          /\ template = inp.template
          /\ root = inp.scope.root
          /\ local = inp.scope.local
    /\ RenderInit
    /\ BotInit

Apply(b, s) ==
    /\ i' = s.i
    /\ out' = s.out
    /\ pc' = IF s.brk THEN "done" ELSE "scan"
    /\ last' = [branch |-> b, i |-> i, out |-> out, brk |-> s.brk,
                tag |-> s.tag, val |-> s.val, block |-> s.block]
    /\ UNCHANGED <<template, root, local, stack, stack0, bvars>>

AtBranch(b) == pc = "scan" /\ i < Len(template) /\ Branch(template, i) = b

Escape == AtBranch("escape") /\ Apply("escape", EscapeBranch(template, root, local, i, out))

Each == AtBranch("each") /\ Apply("each", EachBranch(template, root, local, i, out))

If == AtBranch("if") /\ Apply("if", IfBranch(template, root, local, i, out))

Subst == AtBranch("subst") /\ Apply("subst", SubstBranch(template, root, local, i, out))

Char == AtBranch("char") /\ Apply("char", CharBranch(template, root, local, i, out))

Return ==
    /\ pc = "scan"
    /\ i >= Len(template)
    /\ pc' = "done"
    /\ UNCHANGED <<template, root, local, i, out, last, stack, stack0, bvars>>

Next == Escape \/ Each \/ If \/ Subst \/ Char \/ Return

Spec == Init /\ [][Next]_vars

---------------------------------------------------------------------------
(* render_block with its recursion run call by call.  A frame is one call: *)
(* its template slice, its local, its scan index and output, whether its   *)
(* loop was left with break, and, for the body of an %EACH, the sequence   *)
(* being iterated and the position of its element.                         *)

Frame(tpl, loc, items, n) ==
    [tpl |-> tpl, loc |-> loc, i |-> 0, out |-> <<>>, brk |-> FALSE,
     items |-> items, n |-> n]

Depth == Len(stack)
Top == stack[Depth]
Scanning == Depth > 0 /\ ~Top.brk /\ Top.i < Len(Top.tpl)
SetTop(f) == [stack EXCEPT ![Depth] = f]
AtFrameBranch(bs) == Scanning /\ Branch(Top.tpl, Top.i) \in bs
Returning == Depth > 0 /\ ~Scanning

StackInit ==
    /\ \E inp \in Inputs :
          /\ template = inp.template
          /\ root = inp.scope.root
          /\ local = inp.scope.local
    /\ i = 0
    /\ out = <<>>
    /\ pc = "scan"
    /\ last = NoStep
    /\ stack = <<Frame(template, local, <<>>, 0)>>
    /\ stack0 = <<>>
    /\ BotInit

(* an iteration that calls nothing: %%, a substitution, a lone %, a char *)
FrameScan ==
    /\ AtFrameBranch({"escape", "subst", "char"})
    /\ LET s == LoopBody(Top.tpl, root, Top.loc, Top.i, Top.out)
       IN  stack' = SetTop([Top EXCEPT !.i = s.i, !.out = s.out])
    /\ stack0' = stack
    /\ UNCHANGED <<template, root, local, i, out, pc, last, bvars>>

FrameEach ==
    /\ AtFrameBranch({"each"})
    /\ LET b == EachBlock(Top.tpl, root, Top.loc, Top.i)
       IN  IF ~b.found THEN stack' = SetTop([Top EXCEPT !.brk = TRUE])
           ELSE IF b.val.t = "arr" /\ b.val.v # <<>>
           THEN stack' = Append(SetTop([Top EXCEPT !.i = b.next]),
                                Frame(b.block, b.val.v[1], b.val.v, 1))
           ELSE stack' = SetTop([Top EXCEPT !.i = b.next])
    /\ stack0' = stack
    /\ UNCHANGED <<template, root, local, i, out, pc, last, bvars>>

FrameIf ==
    /\ AtFrameBranch({"if"})
    /\ LET b == IfBlock(Top.tpl, root, Top.loc, Top.i)
       IN  IF ~b.found THEN stack' = SetTop([Top EXCEPT !.brk = TRUE])
           ELSE IF truthy(b.val)
           THEN stack' = Append(SetTop([Top EXCEPT !.i = b.next]),
                                Frame(b.block, Top.loc, <<>>, 0))
           ELSE stack' = SetTop([Top EXCEPT !.i = b.next])
    /\ stack0' = stack
    /\ UNCHANGED <<template, root, local, i, out, pc, last, bvars>>

(* a call returns its out: the caller pushes it onto its own and, in an    *)
(* %EACH, goes on to the next element                                      *)
FrameReturn ==
    /\ Returning
    /\ IF Depth = 1
       THEN /\ stack' = <<>>
            /\ out' = Top.out
            /\ pc' = "done"
       ELSE /\ LET caller == [stack[Depth - 1] EXCEPT !.out = @ \o Top.out]
                   below == [SubSeq(stack, 1, Depth - 1) EXCEPT ![Depth - 1] = caller]
               IN  stack' = IF Top.n < Len(Top.items)
                            THEN Append(below, Frame(Top.tpl, Top.items[Top.n + 1],
                                                     Top.items, Top.n + 1))
                            ELSE below
            /\ UNCHANGED <<out, pc>>
    /\ stack0' = stack
    /\ UNCHANGED <<template, root, local, i, last, bvars>>

StackNext == FrameScan \/ FrameEach \/ FrameIf \/ FrameReturn

SpecStack == StackInit /\ [][StackNext]_vars

---------------------------------------------------------------------------
(* run_once(config, options): one action per awaited call.  A coin is its  *)
(* id; config.top_n is TopN; a message text is the list of new ids it      *)
(* announces.                                                              *)

TopN == 2
MaxRuns == 3

(* coin ids: one more than a listing holds, so that a coin can enter *)
Ids == 1..(TopN + 1)

Range(f) == { f[x] : x \in DOMAIN f }

SelectNotIn(coins, ids) == SelectSeq(coins, LAMBDA c : c \notin ids)

(* what the listings endpoint may answer: any list of at most top_n coins, *)
(* each coin listed once                                                   *)
Listings ==
    { l \in UNION { [1..n -> Ids] : n \in 0..TopN } : Cardinality(Range(l)) = Len(l) }

ExactListing(coins) == Len(coins) = TopN /\ Cardinality(Range(coins)) = TopN

(* NewCoins as a position-by-position comparison of the two lists *)
NewCoinsPositional(cur, prev) ==
    LET moved == { n \in 1..Len(cur) : n > Len(prev.ids) \/ cur[n] # prev.ids[n] }
    IN  SelectSeq(cur, LAMBDA c : \E n \in moved : cur[n] = c)

(* lines 163-170: the coins of current whose id is not among prev.ids *)
NewCoins(cur, prev) == SelectNotIn(cur, Range(prev.ids))

(* write_state: replace_one({_id: "top"}, StateDoc{..}).upsert(true) *)
write_state(coins) == [present |-> TRUE, ids |-> coins]

(* Following with the state written before the message is sent *)
FollowingWriteFirst(step, dry) ==
    CASE step = "posts"  -> "text"
      [] step = "text"   -> IF dry THEN "return" ELSE "write"
      [] step = "write"  -> "send"
      [] step = "send"   -> "insert"
      [] step = "insert" -> "return"

(* Following without the dry-run return *)
FollowingNoDry(step, dry) ==
    CASE step = "posts"  -> "text"
      [] step = "text"   -> "send"
      [] step = "send"   -> "write"
      [] step = "write"  -> "insert"
      [] step = "insert" -> "return"

(* the order of run_once's calls after the diff found new entrants *)
Following(step, dry) ==
    CASE step = "posts"  -> "text"
      [] step = "text"   -> IF dry THEN "return" ELSE "send"
      [] step = "send"   -> "write"
      [] step = "write"  -> "insert"
      [] step = "insert" -> "return"

Returned(r) ==
    /\ rpc' = "idle"
    /\ result' = r

(* any awaited call may fail: the ? operator returns the error *)
Fail(step) ==
    /\ rpc = step
    /\ Returned("err")
    /\ run0' = [run0 EXCEPT !.failed = step]
    /\ UNCHANGED <<tvars, state_doc, history, sent, printed, dry_run, current,
                   new_coins, runs>>

Start ==
    /\ rpc = "idle"
    /\ runs < MaxRuns
    /\ \E d \in BOOLEAN : dry_run' = d
    /\ runs' = runs + 1
    /\ rpc' = "connect"
    /\ current' = <<>>
    /\ new_coins' = <<>>
    /\ run0' = [run0 EXCEPT !.state_doc = state_doc, !.history = history,
                            !.sent = sent, !.send_ok = FALSE,
                            !.failed = ""]
    /\ UNCHANGED <<tvars, state_doc, history, sent, printed, result>>

ConnectDb ==
    /\ rpc = "connect"
    /\ rpc' = "fetch"
    /\ UNCHANGED <<tvars, state_doc, history, sent, printed, dry_run, current,
                   new_coins, result, runs, run0>>

FetchCmcTopN ==
    /\ rpc = "fetch"
    /\ \E coins \in Listings :
          /\ current' = coins
          /\ run0' = [run0 EXCEPT !.exact = run0.exact /\ ExactListing(coins)]
    /\ rpc' = "find"
    /\ UNCHANGED <<tvars, state_doc, history, sent, printed, dry_run, new_coins,
                   result, runs>>

FindNoPrev ==
    /\ rpc = "find"
    /\ ~state_doc.present
    /\ rpc' = "baseline"
    /\ UNCHANGED <<tvars, state_doc, history, sent, printed, dry_run, current,
                   new_coins, result, runs, run0>>

WriteBaseline ==
    /\ rpc = "baseline"
    /\ state_doc' = write_state(current)
    /\ Returned("ok")
    /\ UNCHANGED <<tvars, history, sent, printed, dry_run, current, new_coins,
                   runs, run0>>

FindPrev ==
    /\ rpc = "find"
    /\ state_doc.present
    /\ new_coins' = NewCoins(current, state_doc)
    /\ IF new_coins' = <<>>
       THEN Returned("ok")
       ELSE rpc' = "posts" /\ UNCHANGED result
    /\ UNCHANGED <<tvars, state_doc, history, sent, printed, dry_run, current,
                   runs, run0>>

LoadRecentPosts ==
    /\ rpc = "posts"
    /\ rpc' = Following("posts", dry_run)
    /\ UNCHANGED <<tvars, state_doc, history, sent, printed, dry_run, current,
                   new_coins, result, runs, run0>>

(* produce_telegram_text always returns Ok; a dry run prints and returns *)
ProduceTelegramText ==
    /\ rpc = "text"
    /\ IF Following("text", dry_run) = "return"
       THEN printed' = printed + 1 /\ Returned("ok")
       ELSE rpc' = Following("text", dry_run) /\ UNCHANGED <<printed, result>>
    /\ UNCHANGED <<tvars, state_doc, history, sent, dry_run, current, new_coins,
                   runs, run0>>

SendTelegramMessage ==
    /\ rpc = "send"
    /\ sent' = sent + 1
    /\ run0' = [run0 EXCEPT !.send_ok = TRUE]
    /\ rpc' = Following("send", dry_run)
    /\ UNCHANGED <<tvars, state_doc, history, printed, dry_run, current,
                   new_coins, result, runs>>

(* the request reached Telegram and the answer was lost or not ok *)
SendDeliveredButFailed ==
    /\ rpc = "send"
    /\ sent' = sent + 1
    /\ Returned("err")
    /\ run0' = [run0 EXCEPT !.failed = "send"]
    /\ UNCHANGED <<tvars, state_doc, history, printed, dry_run, current,
                   new_coins, runs>>

WriteState ==
    /\ rpc = "write"
    /\ state_doc' = write_state(current)
    /\ rpc' = Following("write", dry_run)
    /\ UNCHANGED <<tvars, history, sent, printed, dry_run, current, new_coins,
                   result, runs, run0>>

InsertHistory ==
    /\ rpc = "insert"
    /\ history' = Append(history, [new_coin_ids |-> new_coins, text |-> new_coins])
    /\ IF Following("insert", dry_run) = "return"
       THEN Returned("ok")
       ELSE rpc' = Following("insert", dry_run) /\ UNCHANGED result
    /\ UNCHANGED <<tvars, state_doc, sent, printed, dry_run, current, new_coins,
                   runs, run0>>

Failure ==
    \E step \in {"connect", "fetch", "find", "baseline", "posts", "send",
                 "write", "insert"} : Fail(step)

RunNext ==
    \/ Start \/ ConnectDb \/ FetchCmcTopN \/ FindNoPrev \/ WriteBaseline
    \/ FindPrev \/ LoadRecentPosts \/ ProduceTelegramText
    \/ SendTelegramMessage \/ SendDeliveredButFailed \/ WriteState
    \/ InsertHistory \/ Failure

RunInit ==
    /\ template = <<>>
    /\ root = Obj(EmptyMap)
    /\ local = None
    /\ RenderInit
    /\ BotInit

SpecRun == RunInit /\ [][RunNext]_vars

---------------------------------------------------------------------------
(* What the claims speak of, stated on the template text itself.           *)

Occurs(s, p, j) == j + Len(p) <= Len(s) /\ \A m \in 1..Len(p) : s[j + m] = p[m]

(* the offset of the first occurrence of p in s at or after from, else -1 *)
FirstOcc(s, p, from) ==
    LET at == { j \in from..(Len(s) - Len(p)) : Occurs(s, p, j) }
    IN  IF at = {} THEN -1 ELSE CHOOSE j \in at : \A m \in at : j <= m

Trimmed(s) ==
    LET ink == { j \in 1..Len(s) : ~IsWhitespace(s[j]) }
    IN  IF ink = {} THEN <<>>
        ELSE SubSeq(s, CHOOSE j \in ink : \A m \in ink : j <= m,
                       CHOOSE j \in ink : \A m \in ink : j >= m)

Opener(b) == IF b = "each" THEN EACH_OPEN ELSE IF_OPEN
Closer(b) == IF b = "each" THEN END_EACH ELSE END_IF

(* the directive the last iteration started at: where its tag closes, where *)
(* its closer starts, its key and its body                                 *)
IsBlock == last.branch \in {"each", "if"}
TagClose ==
    FirstOcc(template, PCT, last.i + (IF IsBlock THEN Len(Opener(last.branch)) ELSE 1))
CloserAt == IF TagClose = -1 THEN -1 ELSE FirstOcc(template, Closer(last.branch), TagClose + 1)
TerminatedBlock == IsBlock /\ CloserAt # -1
UnterminatedBlock == IsBlock /\ CloserAt = -1
BlockKey == Trimmed(Slice(template, last.i + Len(Opener(last.branch)), TagClose))
BlockBody == Slice(template, TagClose + 1, CloserAt)
AfterBlock == CloserAt + Len(Closer(last.branch))

TerminatedSubst == last.branch = "subst" /\ TagClose # -1
LonePercent == last.branch = "subst" /\ TagClose = -1
Token == Slice(template, last.i + 1, TagClose)
Pipe == FirstOcc(Token, <<"|">>, 0)
SubstKey == Trimmed(IF Pipe = -1 THEN Token ELSE Slice(Token, 0, Pipe))
SubstDefault == IF Pipe = -1 THEN <<>> ELSE Slice(Token, Pipe + 1, Len(Token))

Member(v, key) == v.t = "obj" /\ key \in DOMAIN v.v

(* C1: an unterminated %EACH or %IF opener, like a bare % with no later %, *)
(* emits the literal % and the scan continues one character further, so    *)
(* the text after it is still rendered.                                    *)
C1_UnterminatedContinues ==
    (UnterminatedBlock \/ LonePercent) =>
        /\ ~last.brk
        /\ i = last.i + 1
        /\ out = last.out \o PCT

(* C2: a substitution emits the display string of what its trimmed key     *)
(* resolves to when that string exists and is not empty, else exactly the  *)
(* text after the first | (nothing without a |), and the scan resumes      *)
(* right after the closing %.                                              *)
C2_Substitution ==
    TerminatedSubst =>
        LET v == resolve(local, root, SubstKey)
            shown == IF v.t \in {"none", "null"} THEN None ELSE as_display(v)
        IN  /\ out = last.out \o
                     (IF shown.t = "none" \/ shown.v = <<>> THEN SubstDefault ELSE shown.v)
            /\ i = TagClose + 1
            /\ ~last.brk

C2_Witness ==
    /\ TerminatedSubst
    /\ Pipe # -1
    /\ SubstKey # Slice(Token, 0, Pipe)
    /\ \/ resolve(local, root, SubstKey).t = "num" /\ out # last.out \o SubstDefault
       \/ resolve(local, root, SubstKey).t = "null" /\ out = last.out \o SubstDefault

(* C3: a terminated %EACH block contributes the body rendered once per     *)
(* element, in sequence order, local bound to the element, when its key    *)
(* resolves to a Sequence, and nothing otherwise; the text after the       *)
(* closer is rendered under the scope the block was met in.                *)
RECURSIVE PerElement(_, _, _)
PerElement(body, rt, items) ==
    IF items = <<>> THEN <<>>
    ELSE render_block(body, rt, Head(items)) \o PerElement(body, rt, Tail(items))

(* C3: the EACH step appends the body rendered once per element, in order. *)
C3_Each ==
    (last.branch = "each" /\ TerminatedBlock) =>
        LET v == resolve(local, root, BlockKey)
        IN  /\ out = last.out \o
                     (IF v.t = "arr" THEN PerElement(BlockBody, root, v.v) ELSE <<>>)
            /\ i = AfterBlock
            /\ ~last.brk
            /\ render_block(template, root, local)
                 = out \o render_block(Slice(template, i, Len(template)), root, local)

C3_Witness ==
    /\ last.branch = "each" /\ TerminatedBlock
    /\ last.val.t = "arr" /\ Len(last.val.v) >= 3
    /\ \E m, n \in 1..Len(last.val.v) :
          render_block(BlockBody, root, last.val.v[m])
            # render_block(BlockBody, root, last.val.v[n])
    /\ i < Len(template)

(* C4: a terminated %IF block renders its body once, under the same root   *)
(* and local, exactly when its key resolves to a value that is neither     *)
(* Null nor the empty string; false, 0, [] and {} render it.               *)
C4_If ==
    (last.branch = "if" /\ TerminatedBlock) =>
        LET v == resolve(local, root, BlockKey)
            shown == v.t \notin {"none", "null"} /\ ~(v.t = "str" /\ v.v = <<>>)
        IN  /\ out = last.out \o
                     (IF shown THEN render_block(BlockBody, root, local) ELSE <<>>)
            /\ i = AfterBlock
            /\ ~last.brk

C4_Witness ==
    /\ last.branch = "if" /\ TerminatedBlock
    /\ last.val.t = "bool" /\ ~last.val.v
    /\ local.t = "obj"
    /\ out # last.out

(* C5: resolve gives nothing for the empty key; else the local Mapping's   *)
(* member when local is a Mapping holding the key (a Null member           *)
(* included), else the root Mapping's member, else nothing.                *)
Resolved(loc, rt, key) ==
    IF key = <<>> THEN None
    ELSE IF Member(loc, key) THEN loc.v[key]
    ELSE IF Member(rt, key) THEN rt.v[key]
    ELSE None

(* C5: resolve and every directive's lookup agree with the two-tier rule.  *)
C5_Resolve ==
    /\ \A key \in {<<>>, K, <<"q">>} : resolve(local, root, key) = Resolved(local, root, key)
    /\ (TerminatedSubst \/ TerminatedBlock) => last.val = Resolved(local, root, last.tag)

C5_Witness ==
    /\ TerminatedSubst
    /\ last.tag = K
    /\ Member(local, K) /\ local.v[K].t = "null"
    /\ Member(root, K) /\ root.v[K].t = "str"
    /\ last.val.t = "null"

(* C6: the body of a block ends at the first later occurrence of its       *)
(* closer, nested openers of the same kind are not counted, the scan       *)
(* resumes right after that closer, and a closer met by the scan is        *)
(* ordinary template text (a substitution).                                *)
C6_FirstCloser ==
    /\ TerminatedBlock =>
          /\ last.block = BlockBody
          /\ i = AfterBlock
          /\ ~last.brk
    /\ \A b \in {"each", "if"} :
          (pc = "scan" /\ Occurs(template, Closer(b), i)) => Branch(template, i) = "subst"

C6_Witness ==
    /\ TerminatedBlock
    /\ FirstOcc(BlockBody, Opener(last.branch), 0) # -1
    /\ FirstOcc(template, Closer(last.branch), i) # -1
    /\ FirstOcc(Slice(template, i, Len(template)), Opener(last.branch), 0) = -1

---------------------------------------------------------------------------
(* The claims about run_once.                                              *)

Finished(r) == rpc = "idle" /\ runs > 0 /\ result = r

(* C8: in a run that is no dry run and detected new entrants, the state    *)
(* document and the history change only after the send returned success;   *)
(* a run whose send failed returns an error with both unchanged, so the    *)
(* same fetched list yields the same new entrants again.                   *)
C8_PersistAfterSend ==
    (~dry_run /\ new_coins # <<>>) =>
        /\ (state_doc # run0.state_doc \/ history # run0.history) => run0.send_ok
        /\ (Finished("err") /\ run0.failed \in {"posts", "send"}) =>
              /\ state_doc = run0.state_doc
              /\ history = run0.history
              /\ NewCoins(current, state_doc) = new_coins

C8_Witness ==
    /\ ~dry_run /\ new_coins # <<>>
    /\ Finished("err") /\ run0.failed = "send"
    /\ sent > run0.sent
    /\ history # <<>>

(* C9: with every fetch returning exactly top_n distinct ids and every     *)
(* call succeeding, a run that is no dry run leaves the persisted id set   *)
(* equal to the fetched one: the first run writes the baseline and sends   *)
(* nothing, a run with an id absent from the persisted ids sends one       *)
(* message and rewrites the state, a run with none sends nothing and       *)
(* leaves the state document as it is.                                     *)
C9_StateTracksFetch ==
    (Finished("ok") /\ ~dry_run /\ run0.exact) =>
        LET prev == run0.state_doc
            entrant == Range(current) \ Range(prev.ids) # {}
        IN  /\ state_doc.present
            /\ Range(state_doc.ids) = Range(current)
            /\ ~prev.present =>
                  state_doc.ids = current /\ sent = run0.sent /\ history = run0.history
            /\ (prev.present /\ entrant) =>
                  /\ state_doc.ids = current
                  /\ sent = run0.sent + 1
                  /\ Len(history) = Len(run0.history) + 1
            /\ (prev.present /\ ~entrant) =>
                  state_doc = prev /\ sent = run0.sent /\ history = run0.history

C9_Witness ==
    /\ Finished("ok") /\ ~dry_run /\ run0.exact
    /\ run0.state_doc.present
    /\ Range(current) \ Range(run0.state_doc.ids) = {}
    /\ current # state_doc.ids
    /\ sent > 0

(* C10: a dry run never sends and never inserts a history record, and it   *)
(* writes the state document only when there was none.                     *)
C10_DryRun ==
    (dry_run /\ runs > 0) =>
        /\ sent = run0.sent
        /\ history = run0.history
        /\ run0.state_doc.present => state_doc = run0.state_doc
        /\ state_doc # run0.state_doc => state_doc = write_state(current)

C10_Witness ==
    /\ dry_run /\ Finished("ok")
    /\ run0.state_doc.present
    /\ new_coins # <<>>
    /\ printed > 0

(* C7: every iteration of the scan loop moves the scan index of its call   *)
(* at least one further or leaves the loop, every call for a block is made *)
(* on a slice strictly shorter than the template of the caller, no index   *)
(* passes the end of its template and no element position the end of its   *)
(* sequence, and a call that has not returned always has a step to take: so *)
(* render_block returns.                                                   *)
FramesBounded ==
    \A d \in 1..Len(stack) :
        /\ stack[d].i <= Len(stack[d].tpl)
        /\ stack[d].n <= Len(stack[d].items)
        /\ d > 1 => Len(stack[d].tpl) < Len(stack[d - 1].tpl)

(* the guards of FrameScan, FrameEach, FrameIf and FrameReturn *)
NeverStuck ==
    \/ pc = "done"
    \/ AtFrameBranch({"escape", "subst", "char"})
    \/ AtFrameBranch({"each"})
    \/ AtFrameBranch({"if"})
    \/ Returning

ScanAdvanced ==
    LET d == Len(stack0)
        e == Len(stack)
    IN  /\ (e = d /\ d > 0 /\ stack[d].n = stack0[d].n) =>
              \/ stack[d].i > stack0[d].i
              \/ stack[d].brk
        /\ (e = d /\ d > 0 /\ stack[d].n # stack0[d].n) =>
              /\ stack[d].n = stack0[d].n + 1
              /\ stack[d].tpl = stack0[d].tpl
        /\ (e = d + 1 /\ d > 0) =>
              /\ stack[d].i > stack0[d].i
              /\ Len(stack[e].tpl) < Len(stack[d].tpl)
        /\ e \in {d - 1, d, d + 1}

(* C7: every call stays in bounds, always has a step, and each step makes  *)
(* progress, so rendering always terminates.                               *)
C7_Terminates == FramesBounded /\ NeverStuck /\ ScanAdvanced

C7_Witness ==
    /\ Len(stack) = 3
    /\ stack[3].n = 2
    /\ stack[3].i > 0
    /\ stack[1].i < Len(stack[1].tpl)

====
